---- MODULE Spec2Model ----
(***************************************************************************)
(* Whole-kernel common subexpression elimination                           *)
(* (taichi/transforms/whole_kernel_cse.cpp).                               *)
(*                                                                         *)
(* The IR is a tree: a root block holding statements, and if-statements    *)
(* holding a true and a false block.  A statement is a record              *)
(*   kind   : "Arg" | "Const" | "Neg" | "Ptr" | "LU" | "Store" | "If"      *)
(*   ops    : the operands (instance ids), in order                        *)
(*   val    : the literal attribute (constant value, address of a Ptr)     *)
(*   act    : GlobalPtrStmt::activate                                      *)
(*   covers : LoopUniqueStmt::covers                                       *)
(*   hasT/tb, hasF/fb : IfStmt::true_statements / false_statements; a      *)
(*            block that is absent (nullptr) has hasX = FALSE, tb = <<>>   *)
(* and is named by its instance id.                                        *)
(***************************************************************************)
EXTENDS Integers, Sequences, FiniteSets, TLC

VARIABLES
  stmts,          \* instance id -> statement record (the heap of Stmt objects)
  root,           \* the statements of the root block, in order
  visited,        \* WholeKernelCSE::visited
  visible_stmts,  \* WholeKernelCSE::visible_stmts, outermost scope first
  modifier,       \* WholeKernelCSE::modifier, the queued edits in order
  stack,          \* the walker's call stack, innermost frame last
  pc,             \* "call" | "walk" | "returned"
  modified,       \* the local `modified` of run
  traversal,      \* the number of traversals run has started
  rerun,          \* TRUE once the caller has invoked the pass a second time
  entry,          \* the tree as it was when run was entered
  start,          \* the tree as it was when the current traversal started
  hoists,         \* the branch hoists of the current traversal
  event           \* what the last step did

vars == <<stmts, root, visited, visible_stmts, modifier, stack, pc, modified,
          traversal, rerun, entry, start, hoists, event>>

\* Bounds of the input trees: the statements of a tree besides the kernel
\* argument and the if-statement, and the statements of a branch of a tree
\* that has more than those.
MaxStmts == 4

MaxBranch == 3

Last(s) == s[Len(s)]

Front(s) == SubSeq(s, 1, Len(s) - 1)

IndexOf(s, x) == CHOOSE k \in DOMAIN s : s[k] = x

Range(s) == {s[k] : k \in DOMAIN s}

----------------------------------------------------------------------------
(* The tree *)

RECURSIVE BlockIds(_, _)
\* The statements of a block and of the blocks nested in it.
BlockIds(b, st) ==
  UNION {{b[k]} \cup BlockIds(st[b[k]].tb, st) \cup BlockIds(st[b[k]].fb, st)
         : k \in DOMAIN b}

TreeIds(rt, st) == BlockIds(rt, st)

\* The tree proper: the root block and the statements reachable from it.
Tree(rt, st) == [root |-> rt, nodes |-> [i \in TreeIds(rt, st) |-> st[i]]]

\* Stmt::has_operand
has_operand(st, i, x) == \E k \in DOMAIN st[i].ops : st[i].ops[k] = x

\* The statements of a frame's block.
FrameBlock(f, rt, st) ==
  CASE f.br = "R" -> rt
    [] f.br = "T" -> st[f.owner].tb
    [] f.br = "F" -> st[f.owner].fb

----------------------------------------------------------------------------
(* The oracles of the IR library *)

\* Stmt::common_statement_eliminable(): the kinds free of global side effects.
Eligible(s) == s.kind \in {"Arg", "Const", "Neg", "Ptr", "LU"}

RECURSIVE same_statements(_, _, _)
\* irpass::analysis::same_statements: the same kind, the same operands and the
\* same attributes; for containers, pairwise identical bodies.
same_statements(st, a, b) ==
  /\ st[a].kind = st[b].kind
  /\ st[a].ops = st[b].ops
  /\ st[a].val = st[b].val
  /\ st[a].act = st[b].act
  /\ st[a].covers = st[b].covers
  /\ st[a].hasT = st[b].hasT
  /\ st[a].hasF = st[b].hasF
  /\ Len(st[a].tb) = Len(st[b].tb)
  /\ Len(st[a].fb) = Len(st[b].fb)
  /\ \A k \in DOMAIN st[a].tb : same_statements(st, st[a].tb[k], st[b].tb[k])
  /\ \A k \in DOMAIN st[a].fb : same_statements(st, st[a].fb[k], st[b].fb[k])

\* irpass::analysis::same_value
same_value(st, a, b) == a = b \/ same_statements(st, a, b)

\* irpass::analysis::definitely_same_address: the same field, and indices of
\* the same value.
definitely_same_address(st, a, b) ==
  /\ st[a].val = st[b].val
  /\ Len(st[a].ops) = Len(st[b].ops)
  /\ \A k \in DOMAIN st[a].ops : same_value(st, st[a].ops[k], st[b].ops[k])

\* irpass::replace_all_usages_with(scope, old, new): every operand `old` of a
\* statement among `ids` becomes `new`.
replace_all_usages_with(st, ids, old, new) ==
  [i \in DOMAIN st |->
     IF i \in ids
       THEN [st[i] EXCEPT !.ops = [k \in DOMAIN @ |-> IF @[k] = old THEN new ELSE @[k]]]
       ELSE st[i]]

----------------------------------------------------------------------------
(* The equivalence engine *)

\* A variant that accepts any candidate of the statement's kind.
eliminable_by_kind(st, this_stmt, prev_stmt) == TRUE

\* A variant that does not compare the activation flags of pointers.
eliminable_any_activation(st, this_stmt, prev_stmt) ==
  CASE st[this_stmt].kind = "Ptr" ->
         definitely_same_address(st, this_stmt, prev_stmt)
    [] st[this_stmt].kind = "LU" ->
         same_value(st, st[this_stmt].ops[1], st[prev_stmt].ops[1])
    [] OTHER -> same_statements(st, this_stmt, prev_stmt)

\* A variant whose activation test looks at this_stmt where the code looks at
\* prev_stmt.
eliminable_activation_reversed(st, this_stmt, prev_stmt) ==
  CASE st[this_stmt].kind = "Ptr" ->
         /\ definitely_same_address(st, this_stmt, prev_stmt)
         /\ (st[this_stmt].act = st[prev_stmt].act \/ st[this_stmt].act)
    [] st[this_stmt].kind = "LU" ->
         same_value(st, st[this_stmt].ops[1], st[prev_stmt].ops[1])
    [] OTHER -> same_statements(st, this_stmt, prev_stmt)

\* WholeKernelCSE::common_statement_eliminable: may this_stmt be eliminated
\* given prev_stmt of the same kind?  (The value returned.)
common_statement_eliminable(st, this_stmt, prev_stmt) ==
  CASE st[this_stmt].kind = "Ptr" ->
         /\ definitely_same_address(st, this_stmt, prev_stmt)
         /\ (st[this_stmt].act = st[prev_stmt].act \/ st[prev_stmt].act)
    [] st[this_stmt].kind = "LU" ->
         same_value(st, st[this_stmt].ops[1], st[prev_stmt].ops[1])
    [] OTHER -> same_statements(st, this_stmt, prev_stmt)

\* A variant that leaves the covers of prev_stmt as they are.
MergeCoversNone(st, this_stmt, prev_stmt) == st

\* WholeKernelCSE::common_statement_eliminable: its side effect when it
\* returns true, the merge of this_stmt's covers into prev_stmt's.
MergeCovers(st, this_stmt, prev_stmt) ==
  IF st[this_stmt].kind = "LU"
    THEN [st EXCEPT ![prev_stmt].covers = @ \cup st[this_stmt].covers]
    ELSE st

\* A variant that does not descend into the bodies of containers.
MarkUndoneShallow(rt, st, modified_operand) ==
  {i \in Range(rt) : has_operand(st, i, modified_operand)}

\* MarkUndone: the statements of the whole tree, containers and the bodies of
\* containers included, that have modified_operand as an operand.
MarkUndone(rt, st, modified_operand) ==
  {i \in TreeIds(rt, st) : has_operand(st, i, modified_operand)}

\* The candidates of one scope that the engine accepts for stmt.
Accepted(scope, st, stmt) ==
  {p \in scope : st[p].kind = st[stmt].kind /\ common_statement_eliminable(st, stmt, p)}

\* A variant that searches the scopes innermost first.
InnermostScope(vs, st, stmt) ==
  CHOOSE k \in DOMAIN vs :
    /\ Accepted(vs[k], st, stmt) # {}
    /\ \A j \in (k + 1)..Len(vs) : Accepted(vs[j], st, stmt) = {}

\* The scopes are searched outermost first; the search stops in the first
\* scope that holds an accepted candidate.
FirstScope(vs, st, stmt) ==
  CHOOSE k \in DOMAIN vs :
    /\ Accepted(vs[k], st, stmt) # {}
    /\ \A j \in 1..(k - 1) : Accepted(vs[j], st, stmt) = {}

HasMatch(vs, st, stmt) == \E k \in DOMAIN vs : Accepted(vs[k], st, stmt) # {}

\* The candidates the search may return: a scope is an unordered set, so any
\* accepted candidate of the first matching scope may come first.
Matches(vs, st, stmt) == Accepted(vs[FirstScope(vs, st, stmt)], st, stmt)

----------------------------------------------------------------------------
(* The walker *)

\* The record of a step: the statement visited (s), the candidate that replaced
\* it (p), the statements that had s as an operand (users), and those of them
\* that were done when the step began (undone).
NoEvent == [op |-> "none", s |-> 0, p |-> 0, users |-> {}, undone |-> {}]

Ev(op, s, p, users) ==
  [op |-> op, s |-> s, p |-> p, users |-> users, undone |-> users \cap visited]

\* A block the walker has been told to accept / is iterating over.
Frame(kind, owner, br) == [kind |-> kind, owner |-> owner, br |-> br, idx |-> 1]

Top == stack[Len(stack)]

TopBlock == FrameBlock(Top, root, stmts)

\* The walker stands before a statement of the block it iterates over.
AtStmt ==
  /\ pc = "walk"
  /\ stack # <<>>
  /\ Top.kind = "open"
  /\ Top.idx <= Len(TopBlock)

Cur == TopBlock[Top.idx]

\* The loop of visit(Block*) moves on to the next statement.
Advance == [stack EXCEPT ![Len(stack)].idx = @ + 1]

\* visible_stmts.back()[type].insert(stmt)
Register(vs, stmt) == [vs EXCEPT ![Len(vs)] = @ \cup {stmt}]

\* visit(Block*), entry: visible_stmts.emplace_back().
VisitBlockEnter ==
  /\ pc = "walk"
  /\ stack # <<>>
  /\ Top.kind = "enter"
  /\ stack' = [stack EXCEPT ![Len(stack)].kind = "open"]
  /\ visible_stmts' = Append(visible_stmts, {})
  /\ hoists' = IF Top.br = "R" THEN {} ELSE hoists
  /\ start' = IF Top.br = "R" THEN Tree(root, stmts) ELSE start
  /\ event' = Ev("enter", Top.owner, 0, {})
  /\ UNCHANGED <<stmts, root, visited, modifier, pc, modified, traversal, rerun, entry>>

\* A variant that leaves the block's scope on visible_stmts.
VisitBlockExitNoPop ==
  /\ pc = "walk"
  /\ stack # <<>>
  /\ Top.kind = "open"
  /\ Top.idx > Len(TopBlock)
  /\ stack' = Front(stack)
  /\ event' = Ev("exit", Top.owner, 0, {})
  /\ UNCHANGED <<stmts, root, visited, visible_stmts, modifier, pc, modified,
                 traversal, rerun, entry, start, hoists>>

\* visit(Block*), exit: the loop is over, visible_stmts.pop_back().
VisitBlockExit ==
  /\ pc = "walk"
  /\ stack # <<>>
  /\ Top.kind = "open"
  /\ Top.idx > Len(TopBlock)
  /\ stack' = Front(stack)
  /\ visible_stmts' = Front(visible_stmts)
  /\ event' = Ev("exit", Top.owner, 0, {})
  /\ UNCHANGED <<stmts, root, visited, modifier, pc, modified, traversal,
                 rerun, entry, start, hoists>>

\* A variant that registers the statement it skips.
VisitStmtSkipRegister ==
  /\ AtStmt
  /\ stmts[Cur].kind # "If"
  /\ ~Eligible(stmts[Cur])
  /\ visible_stmts' = Register(visible_stmts, Cur)
  /\ stack' = Advance
  /\ event' = Ev("skip", Cur, 0, {})
  /\ UNCHANGED <<stmts, root, visited, modifier, pc, modified,
                 traversal, rerun, entry, start, hoists>>

\* visit(Stmt*): the statement is not CSE-eligible.
VisitStmtSkip ==
  /\ AtStmt
  /\ stmts[Cur].kind # "If"
  /\ ~Eligible(stmts[Cur])
  /\ stack' = Advance
  /\ event' = Ev("skip", Cur, 0, {})
  /\ UNCHANGED <<stmts, root, visited, visible_stmts, modifier, pc, modified,
                 traversal, rerun, entry, start, hoists>>

\* visit(Stmt*): the statement is done; it is registered again.
VisitStmtDone ==
  /\ AtStmt
  /\ stmts[Cur].kind # "If"
  /\ Eligible(stmts[Cur])
  /\ Cur \in visited
  /\ visible_stmts' = Register(visible_stmts, Cur)
  /\ stack' = Advance
  /\ event' = Ev("done", Cur, 0, {})
  /\ UNCHANGED <<stmts, root, visited, modifier, pc, modified, traversal,
                 rerun, entry, start, hoists>>

\* A variant that erases the statement from its block at once.
VisitStmtEliminateInPlace ==
  /\ AtStmt
  /\ stmts[Cur].kind # "If"
  /\ Eligible(stmts[Cur])
  /\ Cur \notin visited
  /\ HasMatch(visible_stmts, stmts, Cur)
  /\ \E prev_stmt \in Matches(visible_stmts, stmts, Cur) :
       LET undone == MarkUndone(root, stmts, Cur)
           merged == MergeCovers(stmts, Cur, prev_stmt)
           st1 == replace_all_usages_with(merged, TreeIds(root, stmts),
                                          Cur, prev_stmt)
           gone(b) == SelectSeq(b, LAMBDA x : x # Cur)
       IN  /\ visited' = visited \ undone
           /\ stmts' = [i \in DOMAIN st1 |->
                          [st1[i] EXCEPT !.tb = gone(@), !.fb = gone(@)]]
           /\ root' = gone(root)
           /\ modifier' = Append(modifier,
                                 [op |-> "erase", ref |-> Cur, stmt |-> 0])
           /\ event' = Ev("elim", Cur, prev_stmt,
                          {i \in TreeIds(root, stmts) : has_operand(stmts, i, Cur)})
  /\ stack' = Advance
  /\ UNCHANGED <<visible_stmts, pc, modified, traversal, rerun, entry, start, hoists>>

\* A variant that leaves the usages of the statement it erases as they are.
VisitStmtEliminateNoReplace ==
  /\ AtStmt
  /\ stmts[Cur].kind # "If"
  /\ Eligible(stmts[Cur])
  /\ Cur \notin visited
  /\ HasMatch(visible_stmts, stmts, Cur)
  /\ \E prev_stmt \in Matches(visible_stmts, stmts, Cur) :
       LET undone == MarkUndone(root, stmts, Cur)
       IN  /\ visited' = visited \ undone
           /\ stmts' = MergeCovers(stmts, Cur, prev_stmt)
           /\ modifier' = Append(modifier,
                                 [op |-> "erase", ref |-> Cur, stmt |-> 0])
           /\ event' = Ev("elim", Cur, prev_stmt,
                          {i \in TreeIds(root, stmts) : has_operand(stmts, i, Cur)})
  /\ stack' = Advance
  /\ UNCHANGED <<root, visible_stmts, pc, modified, traversal, rerun, entry,
                 start, hoists>>

\* visit(Stmt*): a visible candidate is accepted; the statement's users are
\* marked undone, its usages go to the candidate, and its erasure is queued.
VisitStmtEliminate ==
  /\ AtStmt
  /\ stmts[Cur].kind # "If"
  /\ Eligible(stmts[Cur])
  /\ Cur \notin visited
  /\ HasMatch(visible_stmts, stmts, Cur)
  /\ \E prev_stmt \in Matches(visible_stmts, stmts, Cur) :
       LET undone == MarkUndone(root, stmts, Cur)
           merged == MergeCovers(stmts, Cur, prev_stmt)
       IN  /\ visited' = visited \ undone
           /\ stmts' = replace_all_usages_with(merged, TreeIds(root, stmts),
                                               Cur, prev_stmt)
           /\ modifier' = Append(modifier,
                                 [op |-> "erase", ref |-> Cur, stmt |-> 0])
           /\ event' = Ev("elim", Cur, prev_stmt,
                          {i \in TreeIds(root, stmts) : has_operand(stmts, i, Cur)})
  /\ stack' = Advance
  /\ UNCHANGED <<root, visible_stmts, pc, modified, traversal, rerun, entry,
                 start, hoists>>

\* visit(Stmt*): no candidate is accepted; the statement becomes a candidate
\* and is done.
VisitStmtRegister ==
  /\ AtStmt
  /\ stmts[Cur].kind # "If"
  /\ Eligible(stmts[Cur])
  /\ Cur \notin visited
  /\ ~HasMatch(visible_stmts, stmts, Cur)
  /\ visible_stmts' = Register(visible_stmts, Cur)
  /\ visited' = visited \cup {Cur}
  /\ stack' = Advance
  /\ event' = Ev("register", Cur, 0, {})
  /\ UNCHANGED <<stmts, root, modifier, pc, modified, traversal, rerun, entry,
                 start, hoists>>

----------------------------------------------------------------------------
(* Branch hoisting *)

\* visit(IfStmt*), lines 126-136: a branch that is present and empty is dropped.
Normalize(st, i) ==
  [st EXCEPT ![i].hasT = @ /\ st[i].tb # <<>>,
             ![i].hasF = @ /\ st[i].fb # <<>>]

\* Do the first statements of the two branches match?
LeadMatch(st, i) ==
  /\ st[i].hasT /\ st[i].hasF
  /\ same_statements(st, st[i].tb[1], st[i].fb[1])

\* A variant that extracts the true branch's first statement and leaves the
\* false branch's first statement where it is.
HoistLeadKeepFalse(st, i) ==
  IF LeadMatch(st, i)
    THEN [st EXCEPT ![i].tb = Tail(@)]
    ELSE st

\* A variant that does not redirect the usages of the statement it erases.
HoistLeadNoRedirect(st, i) ==
  IF LeadMatch(st, i)
    THEN [st EXCEPT ![i].tb = Tail(@), ![i].fb = Tail(@)]
    ELSE st

\* visit(IfStmt*), lines 143-153: the true branch's first statement is
\* extracted, the usages of the false branch's first statement inside the
\* false branch go to it, and the false branch's first statement is erased.
HoistLead(st, i) ==
  IF LeadMatch(st, i)
    THEN LET common == st[i].tb[1]
             gone   == st[i].fb[1]
             st1    == replace_all_usages_with(st, BlockIds(st[i].fb, st),
                                               gone, common)
         IN  [st1 EXCEPT ![i].tb = Tail(@), ![i].fb = Tail(@)]
    ELSE st

\* Do the last statements of the two branches match (lines 154-158)?
TrailMatch(st, i) ==
  /\ st[i].hasT /\ st[i].hasF
  /\ st[i].tb # <<>>
  /\ st[i].fb # <<>>
  /\ same_statements(st, Last(st[i].tb), Last(st[i].fb))

\* visit(IfStmt*), lines 159-166: the same for the last statements.
HoistTrail(st, i) ==
  IF TrailMatch(st, i)
    THEN LET common == Last(st[i].tb)
             gone   == Last(st[i].fb)
             st1    == replace_all_usages_with(st, BlockIds(st[i].fb, st),
                                               gone, common)
         IN  [st1 EXCEPT ![i].tb = Front(@), ![i].fb = Front(@)]
    ELSE st

\* A variant that accepts both branches without testing that they are present.
BranchFramesUnchecked(st, i) ==
  <<Frame("enter", i, "F"), Frame("enter", i, "T")>>

\* The frames of the branches that are present, the true branch on top.
BranchFrames(st, i) ==
  (IF st[i].hasF THEN <<Frame("enter", i, "F")>> ELSE <<>>)
    \o (IF st[i].hasT THEN <<Frame("enter", i, "T")>> ELSE <<>>)

\* visit(IfStmt*): normalize, hoist the common first and last statements of
\* the branches, then accept the branches that are present.
VisitIfStmt ==
  /\ AtStmt
  /\ stmts[Cur].kind = "If"
  /\ LET i   == Cur
         st0 == Normalize(stmts, i)
         st1 == HoistLead(st0, i)
         st2 == HoistTrail(st1, i)
         lead  == IF LeadMatch(st0, i)
                    THEN <<[op |-> "insert_before", ref |-> i, stmt |-> st0[i].tb[1]]>>
                    ELSE <<>>
         trail == IF TrailMatch(st1, i)
                    THEN <<[op |-> "insert_after", ref |-> i, stmt |-> Last(st1[i].tb)]>>
                    ELSE <<>>
         hl == IF LeadMatch(st0, i)
                 THEN {[if |-> i, where |-> "before", stmt |-> st0[i].tb[1],
                        gone |-> st0[i].fb[1], tb |-> st0[i].tb, fb |-> st0[i].fb,
                        users |-> {u \in BlockIds(st0[i].fb, st0) :
                                     has_operand(st0, u, st0[i].fb[1])}]}
                 ELSE {}
         ht == IF TrailMatch(st1, i)
                 THEN {[if |-> i, where |-> "after", stmt |-> Last(st1[i].tb),
                        gone |-> Last(st1[i].fb), tb |-> st0[i].tb, fb |-> st0[i].fb,
                        users |-> {u \in BlockIds(st1[i].fb, st1) :
                                     has_operand(st1, u, Last(st1[i].fb))}]}
                 ELSE {}
     IN  /\ stmts' = st2
         /\ modifier' = modifier \o lead \o trail
         /\ hoists' = hoists \cup hl \cup ht
         /\ stack' = Advance \o BranchFrames(st2, i)
         /\ event' = Ev("if", i, 0, {})
  /\ UNCHANGED <<root, visited, visible_stmts, pc, modified, traversal, rerun,
                 entry, start>>

----------------------------------------------------------------------------
(* The deferred edits *)

\* One edit applied to one block.
EditBlock(e, b) ==
  CASE e.op = "erase" -> SelectSeq(b, LAMBDA x : x # e.ref)
    [] e.op = "insert_before" ->
         IF e.ref \in Range(b)
           THEN SubSeq(b, 1, IndexOf(b, e.ref) - 1) \o <<e.stmt>>
                  \o SubSeq(b, IndexOf(b, e.ref), Len(b))
           ELSE b
    [] e.op = "insert_after" ->
         IF e.ref \in Range(b)
           THEN SubSeq(b, 1, IndexOf(b, e.ref)) \o <<e.stmt>>
                  \o SubSeq(b, IndexOf(b, e.ref) + 1, Len(b))
           ELSE b

\* One edit applied to the tree: to the block that holds the edit's statement.
ApplyEdit(e, t) ==
  [root  |-> EditBlock(e, t.root),
   stmts |-> [i \in DOMAIN t.stmts |->
                [t.stmts[i] EXCEPT !.tb = EditBlock(e, @), !.fb = EditBlock(e, @)]]]

RECURSIVE ApplyEdits(_, _)
\* DelayedIRModifier::modify_ir: the queued edits, applied in queued order.
ApplyEdits(q, t) ==
  IF q = <<>> THEN t ELSE ApplyEdits(Tail(q), ApplyEdit(Head(q), t))

\* A variant that goes on while `modified` is set, not while the last
\* traversal queued edits.
ModifyIRSticky ==
  /\ pc = "walk"
  /\ stack = <<>>
  /\ IF modifier # <<>> \/ modified
       THEN LET t == ApplyEdits(modifier, [root |-> root, stmts |-> stmts])
            IN  /\ root' = t.root
                /\ stmts' = t.stmts
                /\ modifier' = <<>>
                /\ modified' = TRUE
                /\ stack' = <<Frame("enter", 0, "R")>>
                /\ traversal' = traversal + 1
                /\ event' = Ev("modify", 0, 0, {})
                /\ UNCHANGED pc
       ELSE /\ pc' = "returned"
            /\ event' = Ev("return", 0, 0, {})
            /\ UNCHANGED <<root, stmts, modifier, modified, stack, traversal>>
  /\ UNCHANGED <<visited, visible_stmts, rerun, entry, start, hoists>>

\* run, lines 179-184: the traversal is over.  With edits queued, they are
\* applied and the next traversal starts; with none, run returns `modified`.
ModifyIR ==
  /\ pc = "walk"
  /\ stack = <<>>
  /\ IF modifier # <<>>
       THEN LET t == ApplyEdits(modifier, [root |-> root, stmts |-> stmts])
            IN  /\ root' = t.root
                /\ stmts' = t.stmts
                /\ modifier' = <<>>
                /\ modified' = TRUE
                /\ stack' = <<Frame("enter", 0, "R")>>
                /\ traversal' = traversal + 1
                /\ event' = Ev("modify", 0, 0, {})
                /\ UNCHANGED pc
       ELSE /\ pc' = "returned"
            /\ event' = Ev("return", 0, 0, {})
            /\ UNCHANGED <<root, stmts, modifier, modified, stack, traversal>>
  /\ UNCHANGED <<visited, visible_stmts, rerun, entry, start, hoists>>

\* irpass::whole_kernel_cse: the caller runs the pass, with a fresh
\* WholeKernelCSE, on the tree; a second time on the tree the first run left.
CallRun ==
  /\ \/ pc = "call" /\ UNCHANGED rerun
     \/ pc = "returned" /\ ~rerun /\ rerun' = TRUE
  /\ pc' = "walk"
  /\ visited' = {}
  /\ visible_stmts' = <<>>
  /\ modifier' = <<>>
  /\ modified' = FALSE
  /\ traversal' = 1
  /\ hoists' = {}
  /\ stack' = <<Frame("enter", 0, "R")>>
  /\ entry' = Tree(root, stmts)
  /\ start' = Tree(root, stmts)
  /\ event' = Ev("call", 0, 0, {})
  /\ UNCHANGED <<stmts, root>>

----------------------------------------------------------------------------
(* The input trees *)

\* The statements an input tree is built from.  sel says what the operand
\* is: none, the kernel argument, or the nearest value that is visible.
Item(kind, val, act, covers, sel) ==
  [kind |-> kind, val |-> val, act |-> act, covers |-> covers, sel |-> sel]

ConstItem == Item("Const", "v1", FALSE, {}, "none")

NegItem == Item("Neg", "", FALSE, {}, "prev")

StoreItem == Item("Store", "", FALSE, {}, "prev")

PtrItems == {Item("Ptr", "a", FALSE, {}, "none"), Item("Ptr", "a", TRUE, {}, "none"),
             Item("Ptr", "b", TRUE, {}, "none")}

LUItems == {Item("LU", "", FALSE, {"x"}, "arg"), Item("LU", "", FALSE, {"y"}, "arg"),
            Item("LU", "", FALSE, {"y"}, "prev")}

\* Pointers to one address and an eligible statement that uses the nearest.
UsedPtrItems == {Item("Ptr", "a", FALSE, {}, "none"), Item("Ptr", "a", TRUE, {}, "none"),
                 NegItem}

\* The statements of the trees with long branches.
DeepItems == {ConstItem, NegItem}

\* Each input tree draws its statements from one of these menus.
Menus == {{ConstItem, NegItem, StoreItem}, PtrItems \cup {StoreItem}, LUItems,
          UsedPtrItems}

\* The numbers of statements an input tree may have before and after its
\* if-statement.
OuterLens == {0, 1}

Leaf(item, ops) ==
  [kind |-> item.kind, ops |-> ops, val |-> item.val, act |-> item.act,
   covers |-> item.covers, hasT |-> FALSE, tb |-> <<>>, hasF |-> FALSE, fb |-> <<>>]

\* The nearest statement before position k of items that produces a value;
\* the statements of items have the ids base + 1, base + 2, ...
PrevIn(items, base, k, outer) ==
  LET S == {j \in 1..(k - 1) : items[j].kind # "Store"}
  IN  IF S = {} THEN outer ELSE base + (CHOOSE j \in S : \A l \in S : l <= j)

OpsOf(item, prev) ==
  CASE item.sel = "none" -> <<>>
    [] item.sel = "prev" -> <<prev>>
    [] item.sel = "arg"  -> <<1>>

\* The tree  arg; pre...; if (arg) { tr... } else { fa... }; post...
\* with the ids given in this order: the kernel argument is statement 1.
MkStmts(pre, tr, fa, post, hT, hF) ==
  LET np == Len(pre)
      nt == Len(tr)
      nf == Len(fa)
      ifId == np + 2
      outer == PrevIn(pre, 1, np + 1, 1)
  IN  [i \in 1..(ifId + nt + nf + Len(post)) |->
        CASE i = 1 -> Leaf(Item("Arg", "", FALSE, {}, "none"), <<>>)
          [] i > 1 /\ i < ifId ->
               Leaf(pre[i - 1], OpsOf(pre[i - 1], PrevIn(pre, 1, i - 1, 1)))
          [] i = ifId ->
               [kind |-> "If", ops |-> <<1>>, val |-> "", act |-> FALSE,
                covers |-> {},
                hasT |-> hT, tb |-> [k \in 1..nt |-> ifId + k],
                hasF |-> hF, fb |-> [k \in 1..nf |-> ifId + nt + k]]
          [] i > ifId /\ i <= ifId + nt ->
               Leaf(tr[i - ifId], OpsOf(tr[i - ifId], PrevIn(tr, ifId, i - ifId, outer)))
          [] i > ifId + nt /\ i <= ifId + nt + nf ->
               Leaf(fa[i - ifId - nt],
                    OpsOf(fa[i - ifId - nt],
                          PrevIn(fa, ifId + nt, i - ifId - nt, outer)))
          [] OTHER ->
               Leaf(post[i - ifId - nt - nf],
                    OpsOf(post[i - ifId - nt - nf],
                          PrevIn(post, ifId + nt + nf, i - ifId - nt - nf, outer)))]

MkRoot(pre, tr, fa, post) ==
  LET np == Len(pre)
      ifId == np + 2
  IN  <<1>> \o [k \in 1..np |-> 1 + k] \o <<ifId>>
        \o [k \in 1..Len(post) |-> ifId + Len(tr) + Len(fa) + k]

\* The trees of at most MaxStmts statements around and in the if-statement.
WideTree(st, rt) ==
  \E M \in Menus :
  \E np \in {k \in OuterLens : k <= MaxStmts} :
  \E nq \in {k \in OuterLens : k <= MaxStmts - np} :
  \E nt \in 0..(MaxStmts - np - nq) :
  \E nf \in 0..(MaxStmts - np - nq - nt) :
  \E pre \in [1..np -> M], tr \in [1..nt -> M], fa \in [1..nf -> M],
     post \in [1..nq -> M] :
  \E hT \in (IF nt = 0 THEN BOOLEAN ELSE {TRUE}),
     hF \in (IF nf = 0 THEN BOOLEAN ELSE {TRUE}) :
    /\ st = MkStmts(pre, tr, fa, post, hT, hF)
    /\ rt = MkRoot(pre, tr, fa, post)

\* The trees of more than MaxStmts statements, all of them in the branches
\* of the if-statement, at most MaxBranch in each.
DeepTree(st, rt) ==
  \E nt \in 1..MaxBranch :
  \E nf \in {k \in 1..MaxBranch : nt + k > MaxStmts} :
  \E tr \in [1..nt -> DeepItems], fa \in [1..nf -> DeepItems] :
    /\ st = MkStmts(<<>>, tr, fa, <<>>, TRUE, TRUE)
    /\ rt = MkRoot(<<>>, tr, fa, <<>>)

Init ==
  /\ WideTree(stmts, root) \/ DeepTree(stmts, root)
  /\ visited = {}
  /\ visible_stmts = <<>>
  /\ modifier = <<>>
  /\ stack = <<>>
  /\ pc = "call"
  /\ modified = FALSE
  /\ traversal = 0
  /\ rerun = FALSE
  /\ entry = Tree(root, stmts)
  /\ start = Tree(root, stmts)
  /\ hoists = {}
  /\ event = NoEvent

Next ==
  \/ CallRun
  \/ VisitBlockEnter
  \/ VisitBlockExit
  \/ VisitStmtSkip
  \/ VisitStmtDone
  \/ VisitStmtEliminate
  \/ VisitStmtRegister
  \/ VisitIfStmt
  \/ ModifyIR

Spec == Init /\ [][Next]_vars

----------------------------------------------------------------------------
(* Observations used by the properties *)

Returned == pc = "returned"

RECURSIVE VisibleBefore(_, _, _)
\* The statements that lexically precede statement s of the tree: those
\* before it in its block, and those before the container that holds it in
\* the enclosing blocks.
VisibleBefore(b, st, s) ==
  IF s \in Range(b)
    THEN {b[k] : k \in 1..(IndexOf(b, s) - 1)}
    ELSE UNION {
           IF s \in BlockIds(st[b[k]].tb, st)
             THEN {b[j] : j \in 1..(k - 1)} \cup VisibleBefore(st[b[k]].tb, st, s)
             ELSE IF s \in BlockIds(st[b[k]].fb, st)
               THEN {b[j] : j \in 1..(k - 1)} \cup VisibleBefore(st[b[k]].fb, st, s)
               ELSE {}
           : k \in DOMAIN b}

RECURSIVE SymVal(_, _)
\* The value a statement computes, as a term over the kernel argument.  A
\* pointer's value is its address; a loop-unique statement has the value of
\* its input.
SymVal(st, i) ==
  CASE st[i].kind = "Arg"   -> <<"Arg">>
    [] st[i].kind = "Const" -> <<"Const", st[i].val>>
    [] st[i].kind = "Neg"   -> <<"Neg">> \o SymVal(st, st[i].ops[1])
    [] st[i].kind = "Ptr"   -> <<"Ptr", st[i].val>>
    [] st[i].kind = "LU"    -> <<"LU">> \o SymVal(st, st[i].ops[1])
    [] OTHER                -> <<"None">>

RECURSIVE Effects(_, _, _)
\* The side-effecting statements a block executes, in order, each with the
\* value of its operand, when the if-conditions come out as c.
Effects(b, st, c) ==
  IF b = <<>> THEN <<>>
  ELSE LET h == st[Head(b)]
           here == CASE h.kind = "Store" -> <<SymVal(st, h.ops[1])>>
                     [] h.kind = "If" -> Effects(IF c THEN h.tb ELSE h.fb, st, c)
                     [] OTHER -> <<>>
       IN  here \o Effects(Tail(b), st, c)

----------------------------------------------------------------------------
(* Properties *)

\* C1: a second run on the tree the first run returned returns false and
\* leaves the tree unchanged.
C1_Idempotent ==
  (Returned /\ rerun) => (~modified /\ Tree(root, stmts) = entry)

\* C2: when run returns, the side-effecting statements executed along each
\* path, with the values of their operands, are those of the tree on entry.
C2_Soundness ==
  Returned =>
    \A c \in BOOLEAN : Effects(root, stmts, c) = Effects(entry.root, entry.nodes, c)

C2_Witness ==
  /\ Returned
  /\ modified
  /\ \E i \in TreeIds(root, stmts) :
       /\ stmts[i].kind = "Store"
       /\ stmts[i].ops # entry.nodes[i].ops

\* A statement of the tree that an earlier visible statement of its kind
\* makes redundant.
Redundant(rt, st) ==
  {s \in TreeIds(rt, st) :
     /\ Eligible(st[s])
     /\ \E p \in VisibleBefore(rt, st, s) :
          /\ Eligible(st[p])
          /\ st[p].kind = st[s].kind
          /\ common_statement_eliminable(st, s, p)}

\* C3: when run returns, no eligible statement of the tree is redundant with
\* an earlier eligible statement of its block or of an enclosing block.
C3_Complete == Returned => Redundant(root, stmts) = {}

\* C4: the generic matcher replaces a statement only by a statement that
\* lexically precedes it, in its block or in an enclosing block.
C4_ScopeRespect ==
  event.op = "elim" => event.p \in VisibleBefore(root, stmts, event.s)

C4_Witness ==
  /\ event.op = "elim"
  /\ event.s \notin Range(root)
  /\ event.p \in Range(root)

RECURSIVE Cost(_, _)
\* The steps the walker takes over the statements of block b: one for each
\* statement and, for each branch of an if-statement, one to enter it, one to
\* leave it and those over its statements.
Cost(b, st) ==
  IF b = <<>> THEN 0
  ELSE LET h == st[Head(b)]
       IN  1 + (IF h.hasT THEN 2 + Cost(h.tb, st) ELSE 0)
             + (IF h.hasF THEN 2 + Cost(h.fb, st) ELSE 0)
             + Cost(Tail(b), st)

RECURSIVE WalkLeft(_)
\* A bound on the steps left in the traversal: those of the frames of the
\* walker's stack.
WalkLeft(frames) ==
  IF frames = <<>> THEN 0
  ELSE LET f == Head(frames)
           blk == FrameBlock(f, root, stmts)
       IN  (IF f.kind = "enter"
              THEN 2 + Cost(blk, stmts)
              ELSE 1 + Cost(SubSeq(blk, f.idx, Len(blk)), stmts))
             + WalkLeft(Tail(frames))

\* The statements of the tree, those waiting to be inserted counted twice.
Size ==
  Cardinality(TreeIds(root, stmts))
    + 2 * Cardinality({k \in DOMAIN modifier : modifier[k].op # "erase"})

\* A ranking of the states of a run: no traversal takes more steps than
\* five for each statement of the tree on entry, and three.
Rank == Size * (5 * Cardinality(DOMAIN entry.nodes) + 3) + WalkLeft(stack)

\* C5: every run returns: each step of a run, from its first traversal to
\* the one that queues no edit, lowers a natural-valued rank, so no run goes
\* on for ever.
C5_Terminates == [][(pc = "walk" /\ pc' = "walk") => Rank' < Rank]_vars

C5_Witness == Returned /\ traversal >= 3

\* C6: run returns true exactly when the tree on return differs from the
\* tree on entry.
C6_ReturnValue == Returned => (modified <=> Tree(root, stmts) # entry)

\* Statement a stands immediately before statement b in a block of the tree.
ImmediatelyBefore(rt, st, a, b) ==
  \E blk \in {rt} \cup {st[i].tb : i \in TreeIds(rt, st)}
               \cup {st[i].fb : i \in TreeIds(rt, st)} :
    \E k \in DOMAIN blk : k + 1 \in DOMAIN blk /\ blk[k] = a /\ blk[k + 1] = b

\* The edits of a traversal have just been applied.
Applied == event.op = "modify"

\* What C7 says of every hoist but for the contents of the branches: the
\* hoisted statement stands next to the if-statement, and the uses of the
\* removed statement refer to the hoisted statement.
HoistPlaced(h) ==
  /\ h.where = "before" => ImmediatelyBefore(root, stmts, h.stmt, h.if)
  /\ h.where = "after" => ImmediatelyBefore(root, stmts, h.if, h.stmt)
  /\ h.stmt \notin BlockIds(stmts[h.if].tb, stmts) \cup BlockIds(stmts[h.if].fb, stmts)
  /\ h.gone \notin TreeIds(root, stmts)
  /\ \A u \in h.users :
       ~has_operand(stmts, u, h.gone) /\ has_operand(stmts, u, h.stmt)

\* The branches of if-statement i are present and non-empty and begin (end)
\* with structurally identical statements.
FirstsMatch(i) ==
  /\ stmts[i].hasT /\ stmts[i].hasF
  /\ stmts[i].tb # <<>> /\ stmts[i].fb # <<>>
  /\ same_statements(stmts, stmts[i].tb[1], stmts[i].fb[1])

LastsMatch(i) ==
  /\ stmts[i].hasT /\ stmts[i].hasF
  /\ stmts[i].tb # <<>> /\ stmts[i].fb # <<>>
  /\ same_statements(stmts, Last(stmts[i].tb), Last(stmts[i].fb))

\* The visit of an if-statement leaves no matching pair of first statements
\* behind unless it hoisted one, and no matching pair of last statements
\* unless it hoisted one.
HoistsTaken ==
  event.op = "if" =>
    /\ FirstsMatch(event.s) =>
         \E h \in hoists : h.if = event.s /\ h.where = "before"
    /\ LastsMatch(event.s) =>
         \E h \in hoists : h.if = event.s /\ h.where = "after"

\* The last statements that the visit of if-statement i took out of its
\* branches in this traversal.
TrailTaken(i) ==
  UNION {{r.stmt, r.gone} : r \in {g \in hoists : g.if = i /\ g.where = "after"}}

\* The statements of block b other than its first and other than a last
\* statement hoisted from if-statement i.
RestOf(b, i) == SelectSeq(Tail(b), LAMBDA x : x \notin TrailTaken(i))

\* C7 as claimed: after the edits of a traversal that hoisted the first
\* statements of an if-statement's branches, the hoisted statement stands
\* immediately before the if-statement, the uses of the removed statement
\* refer to it, and each branch is what it was less exactly its first
\* statement (and less its last, when that was hoisted too).
C7_HoistExact ==
  /\ HoistsTaken
  /\ Applied =>
       \A h \in hoists :
         /\ HoistPlaced(h)
         /\ h.where = "before" =>
              /\ stmts[h.if].tb = RestOf(h.tb, h.if)
              /\ stmts[h.if].fb = RestOf(h.fb, h.if)

\* The statements of RestOf(b, i) that the traversal did not erase.
RestKept(b, i) == SelectSeq(RestOf(b, i), LAMBDA x : x \in TreeIds(root, stmts))

\* C7 as amended: each branch has lost its first statement (and its last,
\* when that was hoisted too) and keeps, in their order, the others that the
\* generic matcher did not eliminate in the same traversal.
C7_Hoist ==
  /\ HoistsTaken
  /\ Applied =>
       \A h \in hoists :
         /\ HoistPlaced(h)
         /\ h.where = "before" =>
              /\ stmts[h.if].tb = RestKept(h.tb, h.if)
              /\ stmts[h.if].fb = RestKept(h.fb, h.if)

C7_Witness ==
  /\ Applied
  /\ \E h \in hoists : h.where = "before" /\ h.users # {}
  /\ \E h \in hoists : h.where = "after"

\* C8: a pointer statement is eliminated only in favour of a registered
\* statement of the same address that activates whenever it does; the
\* statement eliminated is never itself a registered candidate.
C8_Activation ==
  (event.op = "elim" /\ stmts[event.s].kind = "Ptr") =>
    /\ stmts[event.p].kind = "Ptr"
    /\ stmts[event.s].val = stmts[event.p].val
    /\ (stmts[event.s].act = stmts[event.p].act \/ stmts[event.p].act)
    /\ ~(stmts[event.s].act /\ ~stmts[event.p].act)
    /\ event.p \in UNION Range(visible_stmts)
    /\ event.s \notin UNION Range(visible_stmts)
    /\ \A k \in DOMAIN modifier : modifier[k].ref # event.p

C8_Witness ==
  /\ event.op = "elim"
  /\ stmts[event.s].kind = "Ptr"
  /\ ~stmts[event.s].act
  /\ stmts[event.p].act

\* C9: when a loop-unique statement is eliminated in favour of another, the
\* covers of the other become the union of the two; no other step changes the
\* covers of any statement.
C9_CoversMerge ==
  [][/\ (event'.op = "elim" /\ stmts[event'.s].kind = "LU") =>
          stmts'[event'.p].covers =
            stmts[event'.p].covers \cup stmts[event'.s].covers
     /\ \A i \in DOMAIN stmts :
          stmts'[i].covers # stmts[i].covers =>
            /\ event'.op = "elim"
            /\ event'.p = i
            /\ stmts[event'.s].kind = "LU"]_vars

C9_Witness ==
  /\ event.op = "elim"
  /\ stmts[event.s].kind = "LU"
  /\ stmts[event.s].covers # stmts[event.p].covers
  /\ stmts[event.p].covers = {"x", "y"}
  /\ \E q \in UNION Range(visible_stmts) :
       q # event.p /\ stmts[q].kind = "LU" /\ stmts[q].covers = {"y"}

\* C10: right after the generic matcher eliminates a statement, no statement
\* of the tree that had it as an operand is in the done-set.
C10_Invalidation ==
  event.op = "elim" => event.users \cap visited = {}

C10_Witness ==
  /\ event.op = "elim"
  /\ \E u \in event.undone : u \notin Range(root)

\* The walker stands before an activating pointer statement that is not done.
AtActivatingPtr ==
  /\ AtStmt
  /\ stmts[Cur].kind = "Ptr"
  /\ stmts[Cur].act
  /\ Cur \notin visited

\* The registered and done non-activating pointers to the address of the
\* pointer the walker stands before.
Superseded ==
  {p1 \in (UNION Range(visible_stmts)) \cap visited :
     /\ stmts[p1].kind = "Ptr"
     /\ ~stmts[p1].act
     /\ definitely_same_address(stmts, Cur, p1)}

\* The done statements that have p1 as an operand.
DoneUsers(p1) == {u \in visited : has_operand(stmts, u, p1)}

\* C11 as claimed: the visit of the activating pointer replaces p1 with it
\* and removes the user of p1 from the done-set.
C11_Supersession ==
  [][AtActivatingPtr =>
       \A p1 \in Superseded : \A u \in DoneUsers(p1) :
         /\ ~has_operand(stmts', u, p1)
         /\ has_operand(stmts', u, Cur)
         /\ u \notin visited']_vars

\* C11 as amended: the visit of the activating pointer does not replace p1:
\* p1 stays the operand of its user, is not queued for erasure and is not the
\* candidate the visited pointer is eliminated for, the user stays in the
\* done-set, and the visited pointer is registered as a further candidate
\* unless an activating pointer to the address is visible as well.
C11_NoSupersession ==
  [][AtActivatingPtr =>
       \A p1 \in Superseded : \A u \in DoneUsers(p1) :
         /\ has_operand(stmts', u, p1)
         /\ u \in visited'
         /\ \A k \in DOMAIN modifier' : modifier'[k].ref # p1
         /\ event'.s = Cur
         /\ event'.p # p1
         /\ \/ /\ event'.op = "register"
               /\ Cur \in visited'
               /\ Cur \in Last(visible_stmts')
            \/ /\ event'.op = "elim"
               /\ stmts[event'.p].act]_vars

C11_Witness ==
  /\ event.op = "register"
  /\ stmts[event.s].kind = "Ptr"
  /\ stmts[event.s].act
  /\ \E p1 \in UNION Range(visible_stmts) :
       /\ stmts[p1].kind = "Ptr"
       /\ ~stmts[p1].act
       /\ p1 \in visited
       /\ definitely_same_address(stmts, event.s, p1)
       /\ \E u \in visited : has_operand(stmts, u, p1)

\* Every operand of every statement of the tree is a statement of the tree
\* that stands earlier in the user's block or in a block that encloses it.
OperandsPrecede(rt, st) ==
  \A s \in TreeIds(rt, st) :
    \A k \in DOMAIN st[s].ops : st[s].ops[k] \in VisibleBefore(rt, st, s)

\* The places of the tree: a block (its owner and branch) and a position.
Places(rt, st) ==
  {<<0, "R", k>> : k \in DOMAIN rt}
    \cup UNION {{<<i, "T", k>> : k \in DOMAIN st[i].tb} : i \in TreeIds(rt, st)}
    \cup UNION {{<<i, "F", k>> : k \in DOMAIN st[i].fb} : i \in TreeIds(rt, st)}

PlaceStmt(rt, st, pl) ==
  FrameBlock([owner |-> pl[1], br |-> pl[2]], rt, st)[pl[3]]

\* No statement stands at two places of the tree.
SingleOwner(rt, st) ==
  \A p, q \in Places(rt, st) :
    p # q => PlaceStmt(rt, st, p) # PlaceStmt(rt, st, q)

\* C12: after every application of the edit queue, and on return, every
\* operand of every statement of the tree is a statement of the tree that
\* precedes its user, and every statement is held by one block only.
C12_WellFormed ==
  (Applied \/ Returned) =>
    /\ OperandsPrecede(root, stmts)
    /\ SingleOwner(root, stmts)

\* Two first statements of the branches of one if-statement, the second a
\* user of the first, hoisted in successive traversals, the later hoist one
\* that redirected users in the false branch.
C12_Witness ==
  /\ Applied
  /\ traversal >= 3
  /\ \E h \in hoists : h.where = "before" /\ h.users # {}
  /\ \E k \in DOMAIN root :
       /\ k > 2
       /\ stmts[root[k]].kind = "If"
       /\ {root[k - 1], root[k - 2]} \subseteq Range(entry.nodes[root[k]].tb)
       /\ has_operand(stmts, root[k - 1], root[k - 2])
       /\ \E h \in hoists : h.if = root[k] /\ h.stmt = root[k - 1]

\* The number of CSE-eligible statements of a tree.
EligibleCount(t) == Cardinality({i \in DOMAIN t.nodes : Eligible(t.nodes[i])})

\* The number of statements of a tree.
StmtCount(t) == Cardinality(DOMAIN t.nodes)

\* C13 as claimed: a traversal that queued edits leaves the tree, once they
\* are applied, with strictly fewer CSE-eligible statements than it had when
\* the traversal started.
C13_EligibleDecreases ==
  Applied => EligibleCount(Tree(root, stmts)) < EligibleCount(start)

\* C13 as amended: such a traversal leaves the tree with strictly fewer
\* statements, eligible or not, and with no more eligible statements.
C13_Progress ==
  Applied =>
    /\ StmtCount(Tree(root, stmts)) < StmtCount(start)
    /\ EligibleCount(Tree(root, stmts)) <= EligibleCount(start)

C13_Witness ==
  /\ Applied
  /\ EligibleCount(Tree(root, stmts)) = EligibleCount(start)
  /\ \E h \in hoists : ~Eligible(stmts[h.stmt])

\* A traversal of the fixed-point loop is about to start.
TraversalStart == pc = "walk" /\ stack = <<Frame("enter", 0, "R")>>

\* C14: the done-set is empty at the start of every traversal.
C14_DoneSetFresh == TraversalStart => visited = {}

\* A branch of if-statement i is present and empty.
EmptyBranch(st, i) ==
  \/ st[i].hasT /\ st[i].tb = <<>>
  \/ st[i].hasF /\ st[i].fb = <<>>

\* The walker has been told to accept a branch that is absent.
AbsentBranchFrame ==
  \E k \in DOMAIN stack :
    \/ stack[k].br = "T" /\ ~stmts[stack[k].owner].hasT
    \/ stack[k].br = "F" /\ ~stmts[stack[k].owner].hasF

\* C15: the visit of an if-statement leaves a branch present and empty only
\* when it has just hoisted the branch's statements out; the walker is never
\* told to accept an absent branch; and when run returns no if-statement of
\* the tree has a branch that is present and empty.
C15_EmptyBranches ==
  /\ ~AbsentBranchFrame
  /\ (event.op = "if" /\ EmptyBranch(stmts, event.s)) =>
       \E h \in hoists : h.if = event.s
  /\ Returned =>
       \A i \in TreeIds(root, stmts) : ~EmptyBranch(stmts, i)

C15_Witness ==
  /\ Returned
  /\ \E i \in TreeIds(root, stmts) :
       /\ stmts[i].kind = "If"
       /\ EmptyBranch(entry.nodes, i)
       /\ \/ entry.nodes[i].tb # <<>> /\ ~stmts[i].hasT
          \/ entry.nodes[i].fb # <<>> /\ ~stmts[i].hasF

\* Statement s is in the block that held it when the traversal started.
SameHolder(s) ==
  \/ s \in Range(root) /\ s \in Range(start.root)
  \/ \E i \in DOMAIN start.nodes \cap TreeIds(root, stmts) :
       \/ s \in Range(stmts[i].tb) /\ s \in Range(start.nodes[i].tb)
       \/ s \in Range(stmts[i].fb) /\ s \in Range(start.nodes[i].fb)

\* Statement s was the first or the last statement of a branch when the
\* branch hoist took it out in this traversal.
HoistedOut(s) ==
  \E h \in hoists :
    /\ s \in {h.stmt, h.gone}
    /\ h.where = "before" => s \in {h.tb[1], h.fb[1]}
    /\ h.where = "after" => s \in {Last(h.tb), Last(h.fb)}

\* C16: a statement that is not CSE-eligible is in no visibility scope and not
\* in the done-set, is neither the statement nor the candidate of an
\* elimination, and has no erasure queued; it is in the block that held it
\* when the traversal started unless the branch hoist took it out as the
\* first or last statement of a branch.
C16_IneligibleAlone ==
  /\ \A s \in UNION Range(visible_stmts) : Eligible(stmts[s])
  /\ \A s \in visited : Eligible(stmts[s])
  /\ event.op = "elim" => Eligible(stmts[event.s]) /\ Eligible(stmts[event.p])
  /\ \A k \in DOMAIN modifier :
       modifier[k].op = "erase" => Eligible(stmts[modifier[k].ref])
  /\ pc # "call" =>
       \A s \in DOMAIN start.nodes :
         ~Eligible(start.nodes[s]) =>
           SameHolder(s) \/ HoistedOut(s)

C16_Witness ==
  /\ event.op = "skip"
  /\ stmts[event.s].kind = "Store"
  /\ event.s \notin Range(root)
  /\ \E h \in hoists : stmts[h.stmt].kind = "Store"
  /\ visited # {}

\* The visible candidates of the kind of the statement the walker stands
\* before that the engine accepts for it.
AllAccepted ==
  {q \in UNION Range(visible_stmts) :
     /\ stmts[q].kind = stmts[Cur].kind
     /\ common_statement_eliminable(stmts, Cur, q)}

\* The scope that candidate q is registered in.
ScopeOf(q) == CHOOSE k \in DOMAIN visible_stmts : q \in visible_stmts[k]

\* The covers of every statement but p are left as they are.
OnlyMerged(p) ==
  \A q \in DOMAIN stmts \ {p} : stmts'[q].covers = stmts[q].covers

\* C17 as claimed: the statement is replaced by the accepted candidate that
\* was registered first, the one that precedes every other accepted candidate
\* in the walk, and only that candidate's covers change.
C17_EarliestMatch ==
  [][event'.op = "elim" =>
       /\ \A q \in AllAccepted \ {event'.p} :
            event'.p \in VisibleBefore(root, stmts, q)
       /\ OnlyMerged(event'.p)]_vars

\* C17 as amended: the statement is replaced by an accepted candidate of the
\* outermost scope that holds one, whichever of that scope's accepted
\* candidates it is, and only that candidate's covers change.
C17_OutermostMatch ==
  [][event'.op = "elim" =>
       /\ event'.s = Cur
       /\ event'.p \in AllAccepted
       /\ \A q \in AllAccepted : ScopeOf(event'.p) <= ScopeOf(q)
       /\ OnlyMerged(event'.p)]_vars

C17_Witness ==
  /\ event.op = "elim"
  /\ stmts[event.s].kind = "Ptr"
  /\ \E q \in UNION Range(visible_stmts) :
       /\ q # event.p
       /\ stmts[q].kind = "Ptr"
       /\ common_statement_eliminable(stmts, event.s, q)
       /\ q \in VisibleBefore(root, stmts, event.p)

\* Block b, b less its first statement, less its last, or less both.
Trimmed(b) ==
  {b} \cup (IF b # <<>> THEN {Tail(b), Front(b)} ELSE {})
      \cup (IF Len(b) >= 2 THEN {Front(Tail(b))} ELSE {})

\* The statements of block b that the branch hoist has not taken out in this
\* traversal, in their order.
NotHoisted(b) == SelectSeq(b, LAMBDA x : ~HoistedOut(x))

\* Every block of the tree is the block the traversal started with, less the
\* statements the branch hoist has taken out, in the order it had.
OriginalOrder ==
  /\ root = start.root
  /\ \A i \in TreeIds(root, stmts) :
       /\ i \in DOMAIN start.nodes
       /\ stmts[i].tb = NotHoisted(start.nodes[i].tb)
       /\ stmts[i].fb = NotHoisted(start.nodes[i].fb)

\* C18: during a traversal no step changes the root block; the visit of an
\* if-statement changes only that if-statement's two branches, by taking out
\* their first or last statements, before the walker has been told to accept
\* them; no other step changes any block; each visit is of the statement at
\* the walker's index, which then moves on by one; so every block is walked
\* in the order it had when the traversal started.
C18_Deferred ==
  [][/\ (pc = "walk" /\ stack # <<>>) =>
          /\ root' = root
          /\ \A i \in DOMAIN stmts :
               IF AtStmt /\ Cur = i /\ stmts[i].kind = "If"
                 THEN /\ stmts'[i].tb \in Trimmed(stmts[i].tb)
                      /\ stmts'[i].fb \in Trimmed(stmts[i].fb)
                      /\ \A k \in DOMAIN stack : stack[k].owner # i
                 ELSE /\ stmts'[i].tb = stmts[i].tb
                      /\ stmts'[i].fb = stmts[i].fb
          /\ AtStmt =>
               /\ event'.s = Cur
               /\ SubSeq(stack', 1, Len(stack)) = Advance
     /\ (pc' = "walk" /\ ~TraversalStart') => OriginalOrder']_vars

C18_Witness ==
  /\ event.op = "elim"
  /\ event.s \notin Range(root)
  /\ event.s \in TreeIds(root, stmts)
  /\ hoists # {}
  /\ \E k \in DOMAIN modifier : modifier[k].op = "insert_before"
  /\ \E k \in DOMAIN modifier : modifier[k].op = "erase" /\ modifier[k].ref = event.s

====
